---- MODULE Spec2Model ----
(***************************************************************************)
(* A model of ChromaStorage (src/app/storage/chroma-storage.ts): the       *)
(* document-set storage adapter in front of a ChromaDB backend.            *)
(*                                                                         *)
(* The adapter runs on one JavaScript thread: the code between two awaits  *)
(* is one atomic step.  Every backend call is three steps: the adapter     *)
(* issues the request and suspends (pc "wait"), the backend serves it      *)
(* (pc "ready"), and the adapter resumes with the response.                *)
(*                                                                         *)
(* JavaScript strings that the code inspects (metadata, contents) are      *)
(* sequences of one-character strings; names that are only compared (set   *)
(* names, field names, error messages) are TLA+ strings.                   *)
(*                                                                         *)
(* The backend outlives the adapter: when the adapter is constructed the   *)
(* backend holds no set, or a set that earlier sessions have filled        *)
(* through addDocuments.                                                   *)
(***************************************************************************)
EXTENDS Integers, Sequences, FiniteSets, TLC

VARIABLES
  collections,  \* the adapter's handle cache: set name -> handle
  backend,      \* the backend: set name -> collection or NoCollection
  nextId,       \* the backend's next collection id
  pc,           \* per caller: "idle", "wait" (request issued), "ready" (response there)
  frame,        \* per caller: the running operation's arguments and locals
  req,          \* per caller: the backend request in flight
  resp,         \* per caller: the backend's last response
  ret,          \* per caller: the outcome of its last finished operation
  prev,         \* per caller: what is kept of its previous operation
  calls,        \* per caller: the backend calls its current operation issued
  budget,       \* number of operations the callers may still start
  cin,          \* codec run: the metadata record given to the encoder
  cenc,         \* codec run: the encoded (stored) metadata
  cdec,         \* codec run: the decoded metadata
  cpc           \* codec run: "off", "given", "encoded", "decoded"

vars == <<collections, backend, nextId, pc, frame, req, resp, ret, prev,
          calls, budget, cin, cenc, cdec, cpc>>

mainVars == <<collections, backend, nextId, pc, frame, req, resp, ret, prev,
              calls, budget>>

codecVars == <<cin, cenc, cdec, cpc>>

-----------------------------------------------------------------------------
(* JavaScript values                                                       *)

Undefined == [t |-> "undefined"]

Null == [t |-> "null"]

NaN == [t |-> "NaN"]

Str(s) == [t |-> "string", v |-> s]

Num(n) == [t |-> "number", v |-> n]

\* an array of strings
Arr(a) == [t |-> "array", v |-> a]

\* a plain object, held as a function from its own property names
Obj(o) == [t |-> "object", v |-> o]

\* typeof x
TypeOf(x) ==
  CASE x.t = "NaN" -> "number"
    [] x.t \in {"null", "array"} -> "object"
    [] OTHER -> x.t

\* Array.isArray(x)
IsArray(x) == x.t = "array"

\* the truthiness `if (x)` and `x || d` test
Truthy(x) ==
  CASE x.t \in {"undefined", "null", "NaN"} -> FALSE
    [] x.t = "string" -> x.v # <<>>
    [] x.t = "number" -> x.v # 0
    [] OTHER -> TRUE

\* x || d
OrElse(x, d) == IF Truthy(x) THEN x ELSE d

\* x ?? d
Coalesce(x, d) == IF x.t \in {"undefined", "null"} THEN d ELSE x

\* obj.f of an object held as a function from its own property names
Prop(obj, f) == IF f \in DOMAIN obj THEN obj[f] ELSE Undefined

\* obj with obj.f = x
WithProp(obj, f, x) ==
  [g \in DOMAIN obj \cup {f} |-> IF g = f THEN x ELSE obj[g]]

EmptyObject == [g \in {} |-> Undefined]

Digit(d) == <<"0", "1", "2", "3", "4", "5", "6", "7", "8", "9">>[d + 1]

RECURSIVE Digits(_)
\* the decimal digits of a natural number
Digits(n) == IF n < 10 THEN <<Digit(n)>> ELSE Digits(n \div 10) \o <<Digit(n % 10)>>

DigitValue(c) ==
  CASE c = "0" -> 0 [] c = "1" -> 1 [] c = "2" -> 2 [] c = "3" -> 3 [] c = "4" -> 4
    [] c = "5" -> 5 [] c = "6" -> 6 [] c = "7" -> 7 [] c = "8" -> 8 [] c = "9" -> 9

IsDigit(c) == c \in {"0", "1", "2", "3", "4", "5", "6", "7", "8", "9"}

IsSpace(c) == c = " "

RECURSIVE TrimLeft(_)
TrimLeft(s) == IF s # <<>> /\ IsSpace(Head(s)) THEN TrimLeft(Tail(s)) ELSE s

RECURSIVE TrimRight(_)
TrimRight(s) ==
  IF s # <<>> /\ IsSpace(s[Len(s)]) THEN TrimRight(SubSeq(s, 1, Len(s) - 1)) ELSE s

\* s.trim()
Trim(s) == TrimRight(TrimLeft(s))

RECURSIVE ParseDigits(_, _)
ParseDigits(s, acc) ==
  IF s = <<>> THEN acc ELSE ParseDigits(Tail(s), 10 * acc + DigitValue(Head(s)))

RECURSIVE Join(_)
\* a.join(",") of an array of strings
Join(a) ==
  IF a = <<>> THEN <<>>
  ELSE IF Len(a) = 1 THEN a[1]
  ELSE a[1] \o <<",">> \o Join(Tail(a))

RECURSIVE Split(_, _)
\* s.split(","): cur is the part being read
Split(s, cur) ==
  IF s = <<>> THEN <<cur>>
  ELSE IF Head(s) = "," THEN <<cur>> \o Split(Tail(s), <<>>)
  ELSE Split(Tail(s), Append(cur, Head(s)))

\* String(x)
JsString(x) ==
  CASE x.t = "string" -> x.v
    [] x.t = "number" ->
         IF x.v < 0 THEN <<"-">> \o Digits(0 - x.v) ELSE Digits(x.v)
    [] x.t = "array" -> Join(x.v)
    [] x.t = "NaN" -> <<"N", "a", "N">>
    [] x.t = "null" -> <<"n", "u", "l", "l">>
    [] OTHER -> <<"u", "n", "d", "e", "f", "i", "n", "e", "d">>

RECURSIVE JsNumber(_)
\* Number(x)
JsNumber(x) ==
  CASE x.t = "number" -> x
    [] x.t = "null" -> Num(0)
    [] x.t = "string" ->
         LET s == Trim(x.v) IN
         IF s = <<>> THEN Num(0)
         ELSE IF \A i \in 1..Len(s) : IsDigit(s[i]) THEN Num(ParseDigits(s, 0))
         ELSE NaN
    [] x.t = "array" -> JsNumber(Str(Join(x.v)))
    [] OTHER -> NaN

-----------------------------------------------------------------------------
(* Metadata encoding (addDocuments) and decoding (searchDocuments)         *)

\* the value stored for a list-valued field: joined if an array, else String(x)
encodeList(x) == IF IsArray(x) THEN Str(Join(x.v)) ELSE Str(JsString(x))

\* metadata.f = x  when  cond
SetIf(cond, obj, f, x) == IF cond THEN WithProp(obj, f, x) ELSE obj

\* the required fields, with their defaults
encodeRequired(m) ==
  [source_file   |-> OrElse(Prop(m, "source_file"), Str(<<>>)),
   document_type |-> OrElse(Prop(m, "document_type"), Str(<<"u", "n", "k", "n", "o", "w", "n">>)),
   category      |-> OrElse(Prop(m, "category"), Str(<<>>)),
   keywords      |-> IF IsArray(Prop(m, "keywords"))
                       THEN Str(Join(Prop(m, "keywords").v))
                       ELSE Str(JsString(OrElse(Prop(m, "keywords"), Str(<<>>)))),
   chunk_index   |-> OrElse(JsNumber(Prop(m, "chunk_index")), Num(0))]

\* the metadata object addDocuments builds for one chunk
encodeMetadata(m) ==
  LET m0  == encodeRequired(m)
      m1  == SetIf(Truthy(Prop(m, "document_id")), m0, "document_id", Prop(m, "document_id"))
      m2  == SetIf(Truthy(Prop(m, "mime_type")), m1, "mime_type", Prop(m, "mime_type"))
      m3  == SetIf(TypeOf(Prop(m, "size_bytes")) = "number", m2, "size_bytes", Prop(m, "size_bytes"))
      m4  == SetIf(Truthy(Prop(m, "created_at")), m3, "created_at", Prop(m, "created_at"))
      m5  == SetIf(TypeOf(Prop(m, "page_number")) = "number", m4, "page_number", Prop(m, "page_number"))
      m6  == SetIf(Truthy(Prop(m, "section_heading")), m5, "section_heading", Prop(m, "section_heading"))
      m7  == SetIf(Truthy(Prop(m, "topic_tags")), m6, "topic_tags", encodeList(Prop(m, "topic_tags")))
      m8  == SetIf(Truthy(Prop(m, "code_languages")), m7, "code_languages", encodeList(Prop(m, "code_languages")))
      m9  == SetIf(Truthy(Prop(m, "entities")), m8, "entities", encodeList(Prop(m, "entities")))
      m10 == SetIf(Truthy(Prop(m, "summary")), m9, "summary", Prop(m, "summary"))
  IN  SetIf(TypeOf(Prop(m, "quality_score")) = "number", m10, "quality_score", Prop(m, "quality_score"))

RECURSIVE TrimAll(_)
\* parts.map((k) => k.trim())
TrimAll(parts) ==
  IF parts = <<>> THEN <<>> ELSE <<Trim(Head(parts))>> \o TrimAll(Tail(parts))

NonEmpty(k) == k # <<>>

\* s.split(",").map((k) => k.trim()).filter((k) => k)
splitList(s) == SelectSeq(TrimAll(Split(s, <<>>)), NonEmpty)

\* one list-valued field rebuilt from its stored string
decodeField(md, f) ==
  IF TypeOf(Prop(md, f)) = "string" /\ Truthy(Prop(md, f))
    THEN WithProp(md, f, Arr(splitList(Prop(md, f).v)))
    ELSE md

\* the metadata of one search hit, its list-valued fields rebuilt
decodeMetadata(md) ==
  decodeField(decodeField(decodeField(decodeField(md,
    "keywords"), "topic_tags"), "code_languages"), "entities")

-----------------------------------------------------------------------------
(* The backend (the ChromaDB server behind the client library)             *)
(*                                                                         *)
(* A collection has an id of its own; a handle names the collection and    *)
(* carries that id, so a handle of a deleted collection stays dead when a  *)
(* collection of the same name is created again.  Embeddings are left out: *)
(* the adapter passes them through and never reads them.  Distances and    *)
(* similarities are counted in tenths.                                     *)

Procs == {"p1", "p2"}

SetNames == {"manuals", "notes"}

\* the order in which the backend enumerates collections
NameOrder == <<"manuals", "notes">>

NoCollection == [id |-> 0]

NoRequest == [call |-> "none"]

NoResponse == [ok |-> FALSE, message |-> "none"]

NoOutcome == [ok |-> TRUE, value |-> "none"]

NoFrame == [op |-> "none", args |-> <<>>, at |-> "none"]

Handle(name) == [name |-> name, id |-> backend[name].id]

Exists(name) == backend[name] # NoCollection

\* the handle still names a collection of the backend
Live(h) == backend[h.name].id = h.id

Records(h) == backend[h.name].records

RecordIds(recs) == {recs[i].id : i \in 1..Len(recs)}

Success(v) == [ok |-> TRUE, value |-> v]

Failure(msg) == [ok |-> FALSE, message |-> msg]

Min(a, b) == IF a < b THEN a ELSE b

\* a metadata value against one condition of a where clause
Satisfies(x, cond) ==
  IF cond.op = "$in"
    THEN \E i \in 1..Len(cond.value) : cond.value[i] = x
    ELSE cond.value = x

\* a stored record against a where clause (Undefined: no clause)
Matches(rec, where) ==
  \/ where = Undefined
  \/ \A f \in DOMAIN where.v :
       f \in DOMAIN rec.metadata /\ Satisfies(rec.metadata[f], where.v[f])

\* the records of an add request, from its parallel arrays
RequestRecords(r) ==
  [i \in 1..Len(r.ids) |->
     [id |-> r.ids[i], content |-> r.documents[i], metadata |-> r.metadatas[i]]]

IsFresh(rec, old) == rec.id \notin RecordIds(old)

\* old with every record whose id is in adds replaced by that record of adds
Overwrite(old, adds) ==
  [i \in 1..Len(old) |->
     IF old[i].id \in RecordIds(adds)
       THEN adds[CHOOSE j \in 1..Len(adds) : adds[j].id = old[i].id]
       ELSE old[i]]

\* the records a collection holds after an add.  What the backend does with a
\* record whose id is already stored (ignore it, or overwrite the stored one)
\* and where it puts new records in its own order (behind or before the old
\* ones) is the backend's choice, made when the collection is created
StoredAfterAdd(coll, adds) ==
  LET old   == IF coll.overwrites THEN Overwrite(coll.records, adds) ELSE coll.records
      fresh == SelectSeq(adds, LAMBDA rec : IsFresh(rec, coll.records))
  IN  IF coll.newestFirst THEN fresh \o old ELSE old \o fresh

\* the backend answers caller p's request with response r
Answer(p, r) ==
  /\ pc' = [pc EXCEPT ![p] = "ready"]
  /\ resp' = [resp EXCEPT ![p] = r]
  /\ calls' = [calls EXCEPT ![p][Len(calls[p])].status = IF r.ok THEN "ok" ELSE "failed"]

Respond(p, r) ==
  /\ Answer(p, r)
  /\ UNCHANGED <<collections, frame, req, ret, prev, budget, codecVars>>

Waiting(p, call) == pc[p] = "wait" /\ req[p].call = call

\* any call may fail on the way (network, server): nothing is changed
BackendUnavailable(p) ==
  /\ pc[p] = "wait"
  /\ req[p].call # "counts"
  /\ Respond(p, Failure("unavailable"))
  /\ UNCHANGED <<backend, nextId>>

BackendHeartbeat(p) ==
  /\ Waiting(p, "heartbeat")
  /\ Respond(p, Success(1))
  /\ UNCHANGED <<backend, nextId>>

BackendCreateCollection(p) ==
  /\ Waiting(p, "createCollection")
  /\ IF Exists(req[p].name)
       THEN /\ Respond(p, Failure("already exists"))
            /\ UNCHANGED <<backend, nextId>>
       ELSE /\ \E newestFirst \in BOOLEAN, overwrites \in BOOLEAN :
                 backend' = [backend EXCEPT ![req[p].name] =
                               [id |-> nextId, records |-> <<>>,
                                newestFirst |-> newestFirst, overwrites |-> overwrites]]
            /\ nextId' = nextId + 1
            /\ Respond(p, Success([name |-> req[p].name, id |-> nextId]))

BackendGetCollection(p) ==
  /\ Waiting(p, "getCollection")
  /\ Respond(p, IF Exists(req[p].name) THEN Success(Handle(req[p].name))
                ELSE Failure("not found"))
  /\ UNCHANGED <<backend, nextId>>

BackendListCollections(p) ==
  /\ Waiting(p, "listCollections")
  /\ Respond(p, Success([i \in 1..Len(SelectSeq(NameOrder, Exists)) |->
                           Handle(SelectSeq(NameOrder, Exists)[i])]))
  /\ UNCHANGED <<backend, nextId>>

BackendDeleteCollection(p) ==
  /\ Waiting(p, "deleteCollection")
  /\ IF Exists(req[p].name)
       THEN /\ backend' = [backend EXCEPT ![req[p].name] = NoCollection]
            /\ Respond(p, Success(1))
       ELSE /\ Respond(p, Failure("not found"))
            /\ UNCHANGED backend
  /\ UNCHANGED nextId

BackendCount(p) ==
  /\ Waiting(p, "count")
  /\ Respond(p, IF Live(req[p].handle) THEN Success(Len(Records(req[p].handle)))
                ELSE Failure("not found"))
  /\ UNCHANGED <<backend, nextId>>

\* the count() calls of listDocumentSets are in flight together and are
\* answered one at a time, in any order; the first failure rejects the whole
BackendCounts(p) ==
  /\ Waiting(p, "counts")
  /\ \E i \in DOMAIN req[p].handles, fails \in BOOLEAN :
       /\ req[p].results[i] = Undefined
       /\ LET h == req[p].handles[i]
              r == IF Live(h) /\ ~fails THEN Num(Len(Records(h))) ELSE Null
              results == [req[p].results EXCEPT ![i] = r]
          IN  /\ req' = [req EXCEPT ![p].results = results]
              /\ IF r = Null
                   THEN Answer(p, Failure(IF fails THEN "unavailable" ELSE "not found"))
                   ELSE IF \A j \in DOMAIN results : results[j] # Undefined
                     THEN Answer(p, Success(results))
                     ELSE UNCHANGED <<pc, resp, calls>>
  /\ UNCHANGED <<backend, nextId, collections, frame, ret, prev, budget, codecVars>>

BackendAdd(p) ==
  /\ Waiting(p, "add")
  /\ IF Live(req[p].handle)
       THEN /\ backend' = [backend EXCEPT ![req[p].handle.name].records =
                                StoredAfterAdd(backend[req[p].handle.name], RequestRecords(req[p]))]
            /\ Respond(p, Success(1))
       ELSE /\ Respond(p, Failure("not found"))
            /\ UNCHANGED backend
  /\ UNCHANGED nextId

\* a page of the stored records, in the backend's order, metadata only
BackendGet(p) ==
  /\ Waiting(p, "get")
  /\ Respond(p,
       IF Live(req[p].handle)
         THEN LET recs == Records(req[p].handle)
                  page == SubSeq(recs, req[p].offset + 1,
                                 Min(Len(recs), req[p].offset + req[p].limit))
              IN  Success([metadatas |-> [i \in 1..Len(page) |-> page[i].metadata]])
         ELSE Failure("not found"))
  /\ UNCHANGED <<backend, nextId>>

BackendDelete(p) ==
  /\ Waiting(p, "delete")
  /\ IF Live(req[p].handle)
       THEN /\ backend' = [backend EXCEPT ![req[p].handle.name].records =
                 SelectSeq(@, LAMBDA rec :
                   /\ ~(\E i \in 1..Len(req[p].ids) : req[p].ids[i] = rec.id)
                   /\ ~(req[p].where # Undefined /\ Matches(rec, req[p].where)))]
            /\ Respond(p, Success(1))
       ELSE /\ Respond(p, Failure("not found"))
            /\ UNCHANGED backend
  /\ UNCHANGED nextId

RECURSIVE Ranked(_, _, _)
\* the sequences of n distances out of values, none below floor, nearest first
Ranked(n, values, floor) ==
  IF n = 0 THEN {<<>>}
  ELSE UNION {{<<Num(v)>> \o rest : rest \in Ranked(n - 1, values, v)} :
                v \in {w \in values : w >= floor}}

\* what the engine may report for n hits: a distance for every hit, nearest
\* first, or none at all
Distances(n, dists) ==
  LET values == {d.v : d \in dists \ {Undefined}}
      least  == IF values = {} THEN 0 ELSE CHOOSE v \in values : \A w \in values : v <= w
  IN  Ranked(n, values, least)
        \cup (IF Undefined \in dists THEN {[i \in 1..n |-> Undefined]} ELSE {})

\* the nearest records that match, at most nResults of them, nearest first,
\* with the distances the engine computed (ds) and the contents it returns
\* (withDocs)
BackendQuery(p, dists) ==
  /\ Waiting(p, "query")
  /\ IF Live(req[p].handle)
       THEN LET found == SelectSeq(Records(req[p].handle),
                                   LAMBDA rec : Matches(rec, req[p].where))
                hits  == SubSeq(found, 1, Min(Len(found), req[p].nResults))
            IN  \E ds \in Distances(Len(hits), dists), withDocs \in BOOLEAN :
                  Respond(p, Success(
                    [ids       |-> [i \in 1..Len(hits) |-> hits[i].id],
                     documents |-> [i \in 1..Len(hits) |->
                                      IF withDocs THEN Str(hits[i].content) ELSE Null],
                     metadatas |-> [i \in 1..Len(hits) |-> Obj(hits[i].metadata)],
                     distances |-> ds]))
       ELSE Respond(p, Failure("not found"))
  /\ UNCHANGED <<backend, nextId>>

-----------------------------------------------------------------------------
(* The adapter: class ChromaStorage                                        *)

batchSize == 100

pageSize == 500

defaultLimit == 10

\* new Date().toISOString(): the clock is left out
Now == <<"n", "o", "w">>

\* what is kept of caller p's last finished operation: its name, the set it
\* was about, whether it returned or threw and what it threw, and the backend
\* calls it made
Summary(p) ==
  [op      |-> frame[p].op,
   setId   |-> IF frame[p].op \in {"healthCheck", "listDocumentSets", "cleanup"} THEN "none"
               ELSE IF frame[p].op = "createDocumentSet" THEN frame[p].args.name
               ELSE frame[p].args.setId,
   outcome |-> IF ret[p].ok THEN [ok |-> TRUE] ELSE ret[p],
   calls   |-> [k \in 1..Len(calls[p]) |->
                  [call |-> calls[p][k].req.call, status |-> calls[p][k].status]]]

\* a caller starts an operation
Begin(p) ==
  /\ pc[p] = "idle"
  /\ budget > 0
  /\ budget' = budget - 1
  /\ prev' = IF frame[p].op = "none" THEN prev
             ELSE [prev EXCEPT ![p] = <<Summary(p)>>]

\* caller p's operation op resumes from its await at
Resume(p, op, at) ==
  /\ pc[p] = "ready"
  /\ frame[p].op = op
  /\ frame[p].at = at
  /\ UNCHANGED <<budget, prev>>

\* what the log of issued calls keeps of a request: all but the payload of an add
Logged(r) ==
  IF r.call = "add" THEN [call |-> "add", handle |-> r.handle, ids |-> r.ids] ELSE r

\* await a backend call: the request r is issued and the operation suspends
Suspend(p, f, r, log) ==
  /\ pc' = [pc EXCEPT ![p] = "wait"]
  /\ frame' = [frame EXCEPT ![p] = f]
  /\ req' = [req EXCEPT ![p] = r]
  /\ resp' = [resp EXCEPT ![p] = NoResponse]
  /\ calls' = [calls EXCEPT ![p] = Append(log, [req |-> Logged(r), status |-> "pending"])]
  /\ ret' = [ret EXCEPT ![p] = NoOutcome]

\* the operation returns (ok) or throws (not ok)
Finish(p, f, outcome, log) ==
  /\ pc' = [pc EXCEPT ![p] = "idle"]
  /\ frame' = [frame EXCEPT ![p] = f]
  /\ req' = [req EXCEPT ![p] = NoRequest]
  /\ ret' = [ret EXCEPT ![p] = outcome]
  /\ UNCHANGED resp
  /\ calls' = [calls EXCEPT ![p] = log]

Returned(v) == [ok |-> TRUE, value |-> v]

\* an error that drops the backend's message
ThrownBare(prefix, r) == [ok |-> FALSE, error |-> prefix]

\* throw new Error(`${prefix}${error.message}`)
Thrown(prefix, r) == [ok |-> FALSE, error |-> prefix \o r.message]

\* this.collections.set(setId, collection)
Cached(setId, h) ==
  [n \in DOMAIN collections \cup {setId} |-> IF n = setId THEN h ELSE collections[n]]

\* this.collections.delete(setId)
Evicted(setId) == [n \in DOMAIN collections \ {setId} |-> collections[n]]

\* a request that makes the collection when the backend has none of the name
GetOrCreateCollectionRequest(setId) == [call |-> "createCollection", name |-> setId]

GetCollectionRequest(setId) == [call |-> "getCollection", name |-> setId]

(* healthCheck *)

healthCheck(p) ==
  /\ Begin(p)
  /\ Suspend(p, [op |-> "healthCheck", args |-> <<>>, at |-> "heartbeat"],
             [call |-> "heartbeat"], <<>>)
  /\ UNCHANGED <<collections, backend, nextId, codecVars>>

healthCheck_heartbeat(p) ==
  /\ Resume(p, "healthCheck", "heartbeat")
  /\ Finish(p, frame[p], Returned(resp[p].ok), calls[p])
  /\ UNCHANGED <<collections, backend, nextId, codecVars>>

(* createDocumentSet *)

createDocumentSet(p, name) ==
  /\ Begin(p)
  /\ Suspend(p, [op |-> "createDocumentSet", args |-> [name |-> name], at |-> "createCollection"],
             [call |-> "createCollection", name |-> name], <<>>)
  /\ UNCHANGED <<collections, backend, nextId, codecVars>>

\* a createDocumentSet that does not keep the new handle
createDocumentSet_createCollectionUncached(p) ==
  /\ Resume(p, "createDocumentSet", "createCollection")
  /\ Finish(p, frame[p],
            IF resp[p].ok
              THEN Returned([id |-> frame[p].args.name, name |-> frame[p].args.name,
                             document_count |-> 0])
              ELSE Thrown("Failed to create document set: ", resp[p]),
            calls[p])
  /\ UNCHANGED <<collections, backend, nextId, codecVars>>

createDocumentSet_createCollection(p) ==
  /\ Resume(p, "createDocumentSet", "createCollection")
  /\ IF resp[p].ok
       THEN /\ collections' = Cached(frame[p].args.name, resp[p].value)
            /\ Finish(p, frame[p],
                      Returned([id |-> frame[p].args.name, name |-> frame[p].args.name,
                                document_count |-> 0]),
                      calls[p])
       ELSE /\ Finish(p, frame[p], Thrown("Failed to create document set: ", resp[p]), calls[p])
            /\ UNCHANGED collections
  /\ UNCHANGED <<backend, nextId, codecVars>>

(* getDocumentSet *)

getDocumentSet(p, setId) ==
  /\ Begin(p)
  /\ Suspend(p, [op |-> "getDocumentSet", args |-> [setId |-> setId], at |-> "getCollection"],
             GetCollectionRequest(setId), <<>>)
  /\ UNCHANGED <<collections, backend, nextId, codecVars>>

getDocumentSet_getCollection(p) ==
  /\ Resume(p, "getDocumentSet", "getCollection")
  /\ IF resp[p].ok
       THEN Suspend(p, [frame[p] EXCEPT !.at = "count"],
                    [call |-> "count", handle |-> resp[p].value], calls[p])
       ELSE Finish(p, frame[p], Returned(Null), calls[p])
  /\ UNCHANGED <<collections, backend, nextId, codecVars>>

\* a getDocumentSet that throws when the count cannot be read
getDocumentSet_countThrowing(p) ==
  /\ Resume(p, "getDocumentSet", "count")
  /\ Finish(p, frame[p],
            IF resp[p].ok
              THEN Returned([id |-> frame[p].args.setId, name |-> frame[p].args.setId,
                             document_count |-> resp[p].value])
              ELSE Thrown("Failed to get document set: ", resp[p]),
            calls[p])
  /\ UNCHANGED <<collections, backend, nextId, codecVars>>

getDocumentSet_count(p) ==
  /\ Resume(p, "getDocumentSet", "count")
  /\ Finish(p, frame[p],
            IF resp[p].ok
              THEN Returned([id |-> frame[p].args.setId, name |-> frame[p].args.setId,
                             document_count |-> resp[p].value])
              ELSE Returned(Null),
            calls[p])
  /\ UNCHANGED <<collections, backend, nextId, codecVars>>

(* listDocumentSets *)

listDocumentSets(p) ==
  /\ Begin(p)
  /\ Suspend(p, [op |-> "listDocumentSets", args |-> <<>>, at |-> "listCollections"],
             [call |-> "listCollections"], <<>>)
  /\ UNCHANGED <<collections, backend, nextId, codecVars>>

\* collections.map(async (col) => ... await col.count() ...) starts every
\* count() at once; Promise.all of no promises is fulfilled with []
listDocumentSets_listCollections(p) ==
  /\ Resume(p, "listDocumentSets", "listCollections")
  /\ IF ~resp[p].ok
       THEN Finish(p, frame[p], Thrown("Failed to list document sets: ", resp[p]), calls[p])
       ELSE IF resp[p].value = <<>>
         THEN Finish(p, frame[p], Returned(<<>>), calls[p])
         ELSE Suspend(p, [frame[p] EXCEPT !.at = "counts"],
                      [call |-> "counts", handles |-> resp[p].value,
                       results |-> [i \in DOMAIN resp[p].value |-> Undefined]],
                      calls[p])
  /\ UNCHANGED <<collections, backend, nextId, codecVars>>

\* `return Promise.all(...)` is not awaited inside the try block: a rejected
\* count() reaches the caller as the backend's own error, not through catch
listDocumentSets_counts(p) ==
  /\ Resume(p, "listDocumentSets", "counts")
  /\ Finish(p, frame[p],
            IF resp[p].ok
              THEN Returned([i \in DOMAIN req[p].handles |->
                               [id |-> req[p].handles[i].name, name |-> req[p].handles[i].name,
                                document_count |-> resp[p].value[i].v]])
              ELSE Thrown("", resp[p]),
            calls[p])
  /\ UNCHANGED <<collections, backend, nextId, codecVars>>

(* listDocuments *)

CountRequest(h) == [call |-> "count", handle |-> h]

\* a page request that always asks for the first page
PageRequestFirstPage(h, offset) ==
  [call |-> "get", handle |-> h, limit |-> pageSize, offset |-> 0,
   include |-> <<"metadatas">>]

PageRequest(h, offset) ==
  [call |-> "get", handle |-> h, limit |-> pageSize, offset |-> offset,
   include |-> <<"metadatas">>]

HasId(docs, docId) == \E i \in 1..Len(docs) : docs[i].id = docId

\* the ListedDocument of the first chunk seen with a document_id
ListedDocument(docId, md) ==
  [id          |-> docId,
   source_file |-> JsString(Coalesce(Prop(md, "source_file"), Str(<<"u", "n", "k", "n", "o", "w", "n">>))),
   mime_type   |-> JsString(Coalesce(Prop(md, "mime_type"),
                                     Str(<<"t", "e", "x", "t", "/", "p", "l", "a", "i", "n">>))),
   size_bytes  |-> JsNumber(Coalesce(Prop(md, "size_bytes"), Num(0))),
   created_at  |-> JsString(Coalesce(Prop(md, "created_at"), Str(Now)))]

\* a fold that adds an entry for every chunk that carries a document id
foldPageRepeating(docsById, metadatas) ==
  LET docIds == [i \in 1..Len(metadatas) |->
                   JsString(Coalesce(Prop(metadatas[i], "document_id"), Str(<<>>)))]
      added == SelectSeq([i \in 1..Len(metadatas) |-> i], LAMBDA i : docIds[i] # <<>>)
  IN  docsById \o [k \in 1..Len(added) |-> ListedDocument(docIds[added[k]], metadatas[added[k]])]

\* a fold that knows only the document ids of the page in hand
foldPagePerPage(docsById, metadatas) ==
  LET docIds == [i \in 1..Len(metadatas) |->
                   JsString(Coalesce(Prop(metadatas[i], "document_id"), Str(<<>>)))]
      IsNew(i) == /\ docIds[i] # <<>>
                  /\ \A j \in 1..(i - 1) : docIds[j] # docIds[i]
      added == SelectSeq([i \in 1..Len(metadatas) |-> i], IsNew)
  IN  docsById \o [k \in 1..Len(added) |-> ListedDocument(docIds[added[k]], metadatas[added[k]])]

\* for (const md of metadatas) { ... }: a chunk adds an entry to docsById (a
\* Map, which keeps its insertion order) unless its document id is empty, is
\* already in the map, or was carried by an earlier chunk of the same page
foldPage(docsById, metadatas) ==
  LET docIds == [i \in 1..Len(metadatas) |->
                   JsString(Coalesce(Prop(metadatas[i], "document_id"), Str(<<>>)))]
      IsNew(i) == /\ docIds[i] # <<>>
                  /\ ~HasId(docsById, docIds[i])
                  /\ \A j \in 1..(i - 1) : docIds[j] # docIds[i]
      added == SelectSeq([i \in 1..Len(metadatas) |-> i], IsNew)
  IN  docsById \o [k \in 1..Len(added) |-> ListedDocument(docIds[added[k]], metadatas[added[k]])]

listDocuments(p, setId) ==
  /\ Begin(p)
  /\ LET f == [op |-> "listDocuments", args |-> [setId |-> setId], at |-> "getCollection"]
     IN  IF setId \in DOMAIN collections
           THEN Suspend(p, [f EXCEPT !.at = "count"], CountRequest(collections[setId]), <<>>)
           ELSE Suspend(p, f, GetCollectionRequest(setId), <<>>)
  /\ UNCHANGED <<collections, backend, nextId, codecVars>>

listDocuments_getCollection(p) ==
  /\ Resume(p, "listDocuments", "getCollection")
  /\ IF resp[p].ok
       THEN /\ collections' = Cached(frame[p].args.setId, resp[p].value)
            /\ Suspend(p, [frame[p] EXCEPT !.at = "count"], CountRequest(resp[p].value), calls[p])
       ELSE /\ Finish(p, frame[p], Thrown("Failed to list documents: ", resp[p]), calls[p])
            /\ UNCHANGED collections
  /\ UNCHANGED <<backend, nextId, codecVars>>

listDocuments_count(p) ==
  /\ Resume(p, "listDocuments", "count")
  /\ IF ~resp[p].ok
       THEN Finish(p, frame[p], Thrown("Failed to list documents: ", resp[p]), calls[p])
       ELSE IF resp[p].value = 0
         THEN Finish(p, frame[p], Returned(<<>>), calls[p])
         ELSE Suspend(p, [op |-> "listDocuments", args |-> frame[p].args, at |-> "get",
                          collection |-> req[p].handle, total |-> resp[p].value,
                          docsById |-> <<>>, offset |-> 0],
                      PageRequest(req[p].handle, 0), calls[p])
  /\ UNCHANGED <<collections, backend, nextId, codecVars>>

\* a page fetch whose failure ends the listing with the documents collected
\* so far
listDocuments_getPartial(p) ==
  /\ Resume(p, "listDocuments", "get")
  /\ IF ~resp[p].ok
       THEN Finish(p, frame[p], Returned(frame[p].docsById), calls[p])
       ELSE LET docs == foldPage(frame[p].docsById, resp[p].value.metadatas)
                f    == [frame[p] EXCEPT !.docsById = docs, !.offset = @ + pageSize]
            IN  IF f.offset < f.total
                  THEN Suspend(p, f, PageRequest(f.collection, f.offset), calls[p])
                  ELSE Finish(p, f, Returned(docs), calls[p])
  /\ UNCHANGED <<collections, backend, nextId, codecVars>>

listDocuments_get(p) ==
  /\ Resume(p, "listDocuments", "get")
  /\ IF ~resp[p].ok
       THEN Finish(p, frame[p], Thrown("Failed to list documents: ", resp[p]), calls[p])
       ELSE LET docs == foldPage(frame[p].docsById, resp[p].value.metadatas)
                f    == [frame[p] EXCEPT !.docsById = docs, !.offset = @ + pageSize]
            IN  IF f.offset < f.total
                  THEN Suspend(p, f, PageRequest(f.collection, f.offset), calls[p])
                  ELSE Finish(p, f, Returned(docs), calls[p])
  /\ UNCHANGED <<collections, backend, nextId, codecVars>>

(* addDocuments *)

\* a slice that runs one chunk into the next batch
batchAtOverlapping(documents, i) ==
  SubSeq(documents, i + 1, Min(Len(documents), i + batchSize + 1))

\* documents.slice(i, i + batchSize)
batchAt(documents, i) == SubSeq(documents, i + 1, Min(Len(documents), i + batchSize))

AddRequest(h, batch) ==
  [call      |-> "add",
   handle    |-> h,
   ids       |-> [k \in 1..Len(batch) |-> batch[k].id],
   documents |-> [k \in 1..Len(batch) |-> batch[k].content],
   metadatas |-> [k \in 1..Len(batch) |-> encodeMetadata(batch[k].metadata)]]

\* for (let i = ...; i < documents.length; ...): the next batch, or the end
addDocuments_loop(p, f, h, i, log) ==
  IF i < Len(f.args.documents)
    THEN Suspend(p, [op |-> "addDocuments", args |-> f.args, at |-> "add",
                     collection |-> h, i |-> i],
                 AddRequest(h, batchAt(f.args.documents, i)), log)
    ELSE Finish(p, f, Returned(Undefined), log)

addDocuments(p, setId, documents) ==
  /\ Begin(p)
  /\ LET f == [op |-> "addDocuments", args |-> [setId |-> setId, documents |-> documents],
               at |-> "getCollection"]
     IN  IF setId \in DOMAIN collections
           THEN addDocuments_loop(p, f, collections[setId], 0, <<>>)
           ELSE Suspend(p, f, GetCollectionRequest(setId), <<>>)
  /\ UNCHANGED <<collections, backend, nextId, codecVars>>

addDocuments_getCollection(p) ==
  /\ Resume(p, "addDocuments", "getCollection")
  /\ IF resp[p].ok
       THEN /\ collections' = Cached(frame[p].args.setId, resp[p].value)
            /\ addDocuments_loop(p, frame[p], resp[p].value, 0, calls[p])
       ELSE /\ Finish(p, frame[p], Thrown("Failed to add documents: ", resp[p]), calls[p])
            /\ UNCHANGED collections
  /\ UNCHANGED <<backend, nextId, codecVars>>

\* a loop that goes on to the next batch after a failed one
addDocuments_addSwallowing(p) ==
  /\ Resume(p, "addDocuments", "add")
  /\ addDocuments_loop(p, frame[p], frame[p].collection, frame[p].i + batchSize, calls[p])
  /\ UNCHANGED <<collections, backend, nextId, codecVars>>

addDocuments_add(p) ==
  /\ Resume(p, "addDocuments", "add")
  /\ IF resp[p].ok
       THEN addDocuments_loop(p, frame[p], frame[p].collection, frame[p].i + batchSize, calls[p])
       ELSE Finish(p, frame[p], Thrown("Failed to add documents: ", resp[p]), calls[p])
  /\ UNCHANGED <<collections, backend, nextId, codecVars>>

(* searchDocuments *)

\* one entry of the filter map as a condition of the where clause
\* a translation that compares every value for equality
conditionEquality(value) == [op |-> "$eq", value |-> value]

condition(value) ==
  IF IsArray(value) THEN [op |-> "$in", value |-> value.v]
  ELSE [op |-> "$eq", value |-> value]

\* whereClause, built from the entries of filters if filters are given
whereClause(filters) ==
  IF Truthy(filters)
    THEN [key \in DOMAIN filters.v |-> condition(filters.v[key])]
    ELSE EmptyObject

\* where: Object.keys(whereClause).length > 0 ? whereClause : undefined
whereArgument(filters) ==
  IF DOMAIN whereClause(filters) # {} THEN Obj(whereClause(filters)) ELSE Undefined

QueryRequest(h, args) ==
  [call     |-> "query",
   handle   |-> h,
   nResults |-> IF args.limit = Undefined THEN defaultLimit ELSE args.limit.v,
   where    |-> whereArgument(args.filters),
   include  |-> <<"documents", "metadatas", "distances">>]

\* a similarity kept within [0, 1]
similarityClamped(distance) ==
  LET s == 10 - OrElse(distance, Num(0)).v
  IN  Num(IF s < 0 THEN 0 ELSE IF s > 10 THEN 10 ELSE s)

\* 1 - (distance || 0), in tenths
similarity(distance) == Num(10 - OrElse(distance, Num(0)).v)

\* one SearchResult, of the hit at index
searchResult(results, index) ==
  [id         |-> results.ids[index],
   content    |-> OrElse(results.documents[index], Str(<<>>)).v,
   metadata   |-> decodeMetadata(OrElse(results.metadatas[index], Obj(EmptyObject)).v),
   similarity |-> similarity(results.distances[index])]

\* results.ids[0]?.map(...) || []
searchResults(results) == [index \in 1..Len(results.ids) |-> searchResult(results, index)]

searchDocuments(p, setId, limit, filters) ==
  /\ Begin(p)
  /\ LET f == [op |-> "searchDocuments",
               args |-> [setId |-> setId, limit |-> limit, filters |-> filters],
               at |-> "getCollection"]
     IN  IF setId \in DOMAIN collections
           THEN Suspend(p, [f EXCEPT !.at = "query"], QueryRequest(collections[setId], f.args), <<>>)
           ELSE Suspend(p, f, GetCollectionRequest(setId), <<>>)
  /\ UNCHANGED <<collections, backend, nextId, codecVars>>

\* a search that uses the handle it was given and does not keep it
searchDocuments_getCollectionUncached(p) ==
  /\ Resume(p, "searchDocuments", "getCollection")
  /\ IF resp[p].ok
       THEN /\ UNCHANGED collections
            /\ Suspend(p, [frame[p] EXCEPT !.at = "query"],
                       QueryRequest(resp[p].value, frame[p].args), calls[p])
       ELSE /\ Finish(p, frame[p], Thrown("Failed to search documents: ", resp[p]), calls[p])
            /\ UNCHANGED collections
  /\ UNCHANGED <<backend, nextId, codecVars>>

searchDocuments_getCollection(p) ==
  /\ Resume(p, "searchDocuments", "getCollection")
  /\ IF resp[p].ok
       THEN /\ collections' = Cached(frame[p].args.setId, resp[p].value)
            /\ Suspend(p, [frame[p] EXCEPT !.at = "query"],
                       QueryRequest(resp[p].value, frame[p].args), calls[p])
       ELSE /\ Finish(p, frame[p], Thrown("Failed to search documents: ", resp[p]), calls[p])
            /\ UNCHANGED collections
  /\ UNCHANGED <<backend, nextId, codecVars>>

searchDocuments_query(p) ==
  /\ Resume(p, "searchDocuments", "query")
  /\ Finish(p, frame[p],
            IF resp[p].ok THEN Returned(searchResults(resp[p].value))
            ELSE Thrown("Failed to search documents: ", resp[p]),
            calls[p])
  /\ UNCHANGED <<collections, backend, nextId, codecVars>>

(* deleteDocument *)

\* a delete request with no ids and a clause that every record matches
DeleteRequestUnfiltered(h, documentId) ==
  [call |-> "delete", handle |-> h, ids |-> <<>>, where |-> Obj(EmptyObject)]

\* collection.delete({ ids: [documentId] })
DeleteRequest(h, documentId) ==
  [call |-> "delete", handle |-> h, ids |-> <<documentId>>, where |-> Undefined]

deleteDocument(p, setId, documentId) ==
  /\ Begin(p)
  /\ LET f == [op |-> "deleteDocument", args |-> [setId |-> setId, documentId |-> documentId],
               at |-> "getCollection"]
     IN  IF setId \in DOMAIN collections
           THEN Suspend(p, [f EXCEPT !.at = "delete"],
                        DeleteRequest(collections[setId], documentId), <<>>)
           ELSE Suspend(p, f, GetCollectionRequest(setId), <<>>)
  /\ UNCHANGED <<collections, backend, nextId, codecVars>>

deleteDocument_getCollection(p) ==
  /\ Resume(p, "deleteDocument", "getCollection")
  /\ IF resp[p].ok
       THEN /\ collections' = Cached(frame[p].args.setId, resp[p].value)
            /\ Suspend(p, [frame[p] EXCEPT !.at = "delete"],
                       DeleteRequest(resp[p].value, frame[p].args.documentId), calls[p])
       ELSE /\ Finish(p, frame[p], Thrown("Failed to delete document: ", resp[p]), calls[p])
            /\ UNCHANGED collections
  /\ UNCHANGED <<backend, nextId, codecVars>>

deleteDocument_delete(p) ==
  /\ Resume(p, "deleteDocument", "delete")
  /\ Finish(p, frame[p],
            IF resp[p].ok THEN Returned(Undefined)
            ELSE Thrown("Failed to delete document: ", resp[p]),
            calls[p])
  /\ UNCHANGED <<collections, backend, nextId, codecVars>>

(* deleteDocumentSet *)

deleteDocumentSet(p, setId) ==
  /\ Begin(p)
  /\ Suspend(p, [op |-> "deleteDocumentSet", args |-> [setId |-> setId], at |-> "deleteCollection"],
             [call |-> "deleteCollection", name |-> setId], <<>>)
  /\ UNCHANGED <<collections, backend, nextId, codecVars>>

\* a deleteDocumentSet that returns normally whatever the backend answered
\* a deleteDocumentSet that leaves the handle in the cache
deleteDocumentSet_deleteCollectionKeepingHandle(p) ==
  /\ Resume(p, "deleteDocumentSet", "deleteCollection")
  /\ Finish(p, frame[p],
            IF resp[p].ok THEN Returned(Undefined)
            ELSE Thrown("Failed to delete document set: ", resp[p]),
            calls[p])
  /\ UNCHANGED <<collections, backend, nextId, codecVars>>

deleteDocumentSet_deleteCollectionSwallowing(p) ==
  /\ Resume(p, "deleteDocumentSet", "deleteCollection")
  /\ collections' = Evicted(frame[p].args.setId)
  /\ Finish(p, frame[p], Returned(Undefined), calls[p])
  /\ UNCHANGED <<backend, nextId, codecVars>>

deleteDocumentSet_deleteCollection(p) ==
  /\ Resume(p, "deleteDocumentSet", "deleteCollection")
  /\ IF resp[p].ok
       THEN /\ collections' = Evicted(frame[p].args.setId)
            /\ Finish(p, frame[p], Returned(Undefined), calls[p])
       ELSE /\ Finish(p, frame[p], Thrown("Failed to delete document set: ", resp[p]), calls[p])
            /\ UNCHANGED collections
  /\ UNCHANGED <<backend, nextId, codecVars>>

(* cleanup *)

cleanup(p) ==
  /\ Begin(p)
  /\ Finish(p, [op |-> "cleanup", args |-> <<>>, at |-> "none"], Returned(Undefined), <<>>)
  /\ UNCHANGED <<collections, backend, nextId, codecVars>>

-----------------------------------------------------------------------------
(* Callers, inputs and the specifications                                  *)

\* bounds of the model
MaxOps == 2

MaxOpsConcurrent == 3

MaxOpsBulk == 2

MaxOpsSearch == 2

MaxChunks == 2

MaxList == 2

doc1 == <<"d", "o", "c", "1">>

doc2 == <<"d", "o", "c", "2">>

\* the chunks of one addDocuments call: ids base+1.., with the given metadata
Documents(base, metadatas) ==
  [i \in 1..Len(metadatas) |->
     [id |-> base + i, content |-> <<"c">>, metadata |-> metadatas[i]]]

\* the metadata of the i-th chunk of a call, of document docId (or of none)
Metadata(i, docId) ==
  SetIf(docId # Undefined,
        SetIf(i % 2 = 1,
              [source_file |-> Str(<<"f">> \o Digits(i)),
               mime_type   |-> Str(<<"m">> \o Digits(i)),
               size_bytes  |-> Num(i),
               created_at  |-> Str(<<"t">> \o Digits(i)),
               category    |-> Str(<<"x">>),
               keywords    |-> Arr(<< <<"k">>, <<"l">> >>),
               chunk_index |-> Num(i)],
              "document_type", Str(<<"a">>)),
        "document_id", docId)

\* where a caller's ids start: behind the number of records the set holds
\* (new ids, unless records were deleted) or, for a caller who adds chunks
\* again, at 1 again
Bases(E, setId) ==
  (IF Exists(setId) THEN {Len(backend[setId].records)} ELSE {0})
    \cup (IF E.readds THEN {0} ELSE {})

\* every sequence of at most n chunks whose documents are drawn from docIds
ChunksUpTo(docIds, n) ==
  UNION {{[i \in 1..k |-> Metadata(i, d[i])] : d \in [1..k -> docIds]} : k \in 0..n}

\* a long run of chunks, 24 to a document, so that the chunks of one document
\* lie on both sides of a page boundary; each chunk names its own file
BulkChunks(n) ==
  [i \in 1..n |-> [document_id |-> Str(<<"d">> \o Digits((i - 1) \div 24)),
                   source_file |-> Str(<<"f">> \o Digits(i))]]

BulkLengths == {0, batchSize, batchSize + 1, pageSize \div 2, pageSize + 1}

\* the documents of the chunks of a set that earlier sessions have filled
Scenario == <<Str(doc1), Str(doc2), Str(doc1), Undefined, Str(doc2), Str(doc1)>>

\* the records the backend holds of chunks that came through addDocuments
StoredRecords(documents) == RequestRecords(AddRequest(NoCollection, documents))

\* the backend has no set when the adapter is constructed
NoSeed == {NoCollection}

\* the backend holds a set of these chunks when the adapter is constructed
Seeded(documents) ==
  {[id |-> 1, records |-> StoredRecords(documents),
    newestFirst |-> newestFirst, overwrites |-> overwrites] :
     newestFirst \in BOOLEAN, overwrites \in BOOLEAN}

\* one caller, small sets of chunks in every order of their document ids,
\* on a backend that holds no set or the set of the scenario
Sequential ==
  [procs       |-> {"p1"},
   names       |-> {"manuals"},
   seeds       |-> NoSeed \cup
                   Seeded(Documents(0, [i \in 1..Len(Scenario) |-> Metadata(i, Scenario[i])])),
   inputs      |-> ChunksUpTo({Undefined, Str(doc1)}, MaxChunks),
   maxStored   |-> Len(Scenario) + MaxOps * MaxChunks,
   documentIds |-> 1..MaxChunks,
   limits      |-> {Undefined},
   filters     |-> {Undefined},
   distances   |-> {Num(2)},
   readds      |-> TRUE,
   maxOps      |-> MaxOps]

\* two callers at once
Concurrent ==
  [procs       |-> {"p1", "p2"},
   names       |-> {"manuals"},
   seeds       |-> NoSeed,
   inputs      |-> ChunksUpTo({Str(doc1)}, 1),
   maxStored   |-> MaxOpsConcurrent,
   documentIds |-> {1},
   limits      |-> {Undefined},
   filters     |-> {Undefined},
   distances   |-> {Num(2)},
   readds      |-> TRUE,
   maxOps      |-> MaxOpsConcurrent]

\* one caller, runs of chunks with new ids around the batch and page sizes,
\* as long as the set holds no more than a page and a record, on a backend
\* that holds no set or an empty one
Bulk ==
  [procs       |-> {"p1"},
   names       |-> {"manuals"},
   seeds       |-> NoSeed \cup {seed \in Seeded(<<>>) : ~seed.newestFirst /\ ~seed.overwrites},
   inputs      |-> {BulkChunks(n) : n \in BulkLengths},
   maxStored   |-> pageSize + 1,
   documentIds |-> {1},
   limits      |-> {Undefined},
   filters     |-> {Undefined},
   distances   |-> {Num(2)},
   readds      |-> FALSE,
   maxOps      |-> MaxOpsBulk]

\* a run of chunks, a batch to a document: the chunks of a later batch are
\* those of another document
RaceChunks(n) ==
  [i \in 1..n |-> [document_id |-> Str(<<"d">> \o Digits((i - 1) \div batchSize))]]

\* two callers and two operations in all, on a backend that holds a set of
\* one chunk when the adapter is constructed; a caller adds one chunk, or a
\* batch and a chunk
Racing ==
  [procs       |-> Procs,
   names       |-> {"manuals"},
   seeds       |-> Seeded(Documents(0, <<Metadata(1, Str(doc1))>>)),
   inputs      |-> {RaceChunks(1), RaceChunks(batchSize + 1)},
   maxStored   |-> 1 + batchSize + 1,
   documentIds |-> {1},
   limits      |-> {Undefined},
   filters     |-> {Undefined},
   distances   |-> {Num(2)},
   readds      |-> FALSE,
   maxOps      |-> Cardinality(Procs)]

\* one caller who searches, with every kind of filter and distance
Searching ==
  [procs       |-> {"p1"},
   names       |-> {"manuals"},
   seeds       |-> NoSeed \cup
                   Seeded(Documents(0, [i \in 1..MaxChunks |-> Metadata(i, Str(doc1))])),
   inputs      |-> ChunksUpTo({Str(doc1)}, MaxChunks),
   maxStored   |-> MaxChunks + MaxChunks,
   documentIds |-> {1},
   limits      |-> {Undefined, Num(1)},
   filters     |-> {Undefined,
                    Obj(EmptyObject),
                    Obj([document_type |-> Arr(<<Str(<<"a">>), Str(<<"b">>)>>)]),
                    Obj([category |-> Str(<<"x">>)]),
                    Obj([document_type |-> Arr(<<Str(<<"a">>), Str(<<"b">>)>>),
                         chunk_index |-> Num(2)])},
   distances   |-> {Num(0), Num(2), Num(15), Undefined},
   readds      |-> FALSE,
   maxOps      |-> MaxOpsSearch]

\* the set has room for n more records
Fits(E, setId, n) == Exists(setId) => Len(backend[setId].records) + n <= E.maxStored

NoHandles == [n \in {} |-> NoCollection]

InitMain(E) ==
  /\ collections = NoHandles
  /\ backend \in {[n \in SetNames |-> IF n = "manuals" THEN seed ELSE NoCollection] :
                     seed \in E.seeds}
  /\ nextId = 2
  /\ pc = [p \in Procs |-> "idle"]
  /\ frame = [p \in Procs |-> NoFrame]
  /\ req = [p \in Procs |-> NoRequest]
  /\ resp = [p \in Procs |-> NoResponse]
  /\ ret = [p \in Procs |-> NoOutcome]
  /\ prev = [p \in Procs |-> <<>>]
  /\ calls = [p \in Procs |-> <<>>]
  /\ budget = E.maxOps

InitOf(E) ==
  /\ InitMain(E)
  /\ cin = EmptyObject
  /\ cenc = EmptyObject
  /\ cdec = EmptyObject
  /\ cpc = "off"

\* a caller starts an operation of the adapter
Call(E) ==
  \E p \in E.procs :
    \/ healthCheck(p)
    \/ listDocumentSets(p)
    \/ cleanup(p)
    \/ \E name \in E.names :
         \/ createDocumentSet(p, name)
         \/ getDocumentSet(p, name)
         \/ listDocuments(p, name)
         \/ deleteDocumentSet(p, name)
         \/ \E base \in Bases(E, name), metadatas \in E.inputs :
              /\ Fits(E, name, Len(metadatas))
              /\ addDocuments(p, name, Documents(base, metadatas))
         \/ \E limit \in E.limits, filters \in E.filters :
              searchDocuments(p, name, limit, filters)
         \/ \E documentId \in E.documentIds :
              deleteDocument(p, name, documentId)

\* an operation resumes from an await
Continue(E) ==
  \E p \in E.procs :
    \/ healthCheck_heartbeat(p)
    \/ createDocumentSet_createCollection(p)
    \/ getDocumentSet_getCollection(p)
    \/ getDocumentSet_count(p)
    \/ listDocumentSets_listCollections(p)
    \/ listDocumentSets_counts(p)
    \/ listDocuments_getCollection(p)
    \/ listDocuments_count(p)
    \/ listDocuments_get(p)
    \/ addDocuments_getCollection(p)
    \/ addDocuments_add(p)
    \/ searchDocuments_getCollection(p)
    \/ searchDocuments_query(p)
    \/ deleteDocument_getCollection(p)
    \/ deleteDocument_delete(p)
    \/ deleteDocumentSet_deleteCollection(p)

\* the backend serves a request
Serve(E) ==
  \E p \in E.procs :
    \/ BackendUnavailable(p)
    \/ BackendHeartbeat(p)
    \/ BackendCreateCollection(p)
    \/ BackendGetCollection(p)
    \/ BackendListCollections(p)
    \/ BackendDeleteCollection(p)
    \/ BackendCount(p)
    \/ BackendCounts(p)
    \/ BackendAdd(p)
    \/ BackendGet(p)
    \/ BackendDelete(p)
    \/ BackendQuery(p, E.distances)

NextOf(E) == Call(E) \/ Continue(E) \/ Serve(E)

Init == InitOf(Concurrent)

Next == NextOf(Concurrent)

Spec == Init /\ [][Next]_vars

InitSeq == InitOf(Sequential)

NextSeq == NextOf(Sequential)

SpecSeq == InitSeq /\ [][NextSeq]_vars

InitBulk == InitOf(Bulk)

NextBulk == NextOf(Bulk)

SpecBulk == InitBulk /\ [][NextBulk]_vars

InitSearch == InitOf(Searching)

NextSearch == NextOf(Searching)

SpecSearch == InitSearch /\ [][NextSearch]_vars

InitRace == InitOf(Racing)

NextRace == NextOf(Racing)

SpecRace == InitRace /\ [][NextRace]_vars

-----------------------------------------------------------------------------
(* The metadata codec on its own: a record is encoded as addDocuments      *)
(* encodes it and the stored record is decoded as searchDocuments decodes  *)
(* it.                                                                     *)

ListElements == {<<>>, <<"a">>, <<"b">>, <<" ">>, <<" ", "a">>, <<"a", ",", "b">>}

Lists == UNION {[1..k -> ListElements] : k \in 0..MaxList}

\* the values a caller may give a field: Undefined stands for a field left
\* out, and a field may hold a value that is not of its declared type
FieldValues ==
  [keywords      |-> {Undefined, Str(<<"a">>)} \cup {Arr(l) : l \in Lists},
   topic_tags    |-> {Undefined, Arr(<<>>), Arr(<< <<"a">>, <<"b">> >>)},
   source_file   |-> {Undefined, Str(<<"f">>)},
   document_type |-> {Undefined, Str(<<>>), Str(<<"a">>)},
   chunk_index   |-> {Undefined, Num(0), Num(3)},
   size_bytes    |-> {Undefined, Num(0), Num(7), Str(<<"7">>)},
   summary       |-> {Undefined, Str(<<>>), Str(<<"s">>), Num(5), Arr(<< <<"s">> >>)}]

\* the object with the properties of choice that are not Undefined
ObjectOf(choice) ==
  [f \in {g \in DOMAIN choice : choice[g] # Undefined} |-> choice[f]]

CodecInputs ==
  {ObjectOf([keywords |-> k, topic_tags |-> t, source_file |-> f, document_type |-> d,
             chunk_index |-> c, size_bytes |-> b, summary |-> y]) :
     k \in FieldValues.keywords, t \in FieldValues.topic_tags,
     f \in FieldValues.source_file, d \in FieldValues.document_type,
     c \in FieldValues.chunk_index, b \in FieldValues.size_bytes,
     y \in FieldValues.summary}

InitCodec ==
  /\ InitMain(Concurrent)
  /\ cin \in CodecInputs
  /\ cenc = EmptyObject
  /\ cdec = EmptyObject
  /\ cpc = "given"

\* addDocuments encodes the record for the backend
Encode ==
  /\ cpc = "given"
  /\ cenc' = encodeMetadata(cin)
  /\ cpc' = "encoded"
  /\ UNCHANGED <<cin, cdec, mainVars>>

\* searchDocuments decodes the stored record of a hit
Decode ==
  /\ cpc = "encoded"
  /\ cdec' = decodeMetadata(cenc)
  /\ cpc' = "decoded"
  /\ UNCHANGED <<cin, cenc, mainVars>>

NextCodec == Encode \/ Decode

SpecCodec == InitCodec /\ [][NextCodec]_vars

-----------------------------------------------------------------------------
(* Properties                                                              *)

\* the add calls caller p's operation has issued, in issue order
AddCalls(p) == SelectSeq(calls[p], LAMBDA c : c.req.call = "add")

RECURSIVE ConcatIds(_)
\* the ids those calls carried, one call after the other
ConcatIds(adds) ==
  IF adds = <<>> THEN <<>> ELSE Head(adds).req.ids \o ConcatIds(Tail(adds))

InputIds(p) ==
  [i \in 1..Len(frame[p].args.documents) |-> frame[p].args.documents[i].id]

IsPrefix(a, b) == Len(a) <= Len(b) /\ a = SubSeq(b, 1, Len(a))

CeilDiv(n, d) == (n + d - 1) \div d

\* addDocuments has returned normally to caller p
AddReturned(p) == frame[p].op = "addDocuments" /\ pc[p] = "idle" /\ ret[p].ok

\* C1: an addDocuments call of N chunks that meets no failure issues exactly
\* ceil(N/100) add calls, each of at most 100 records, and the ids of those
\* calls, one call after the other, are the ids of the input in input order;
\* while it runs, the ids issued so far are a prefix of the input's.
C1_Batching ==
  \A p \in Procs :
    frame[p].op = "addDocuments" =>
      /\ \A k \in 1..Len(AddCalls(p)) : Len(AddCalls(p)[k].req.ids) <= 100
      /\ IsPrefix(ConcatIds(AddCalls(p)), InputIds(p))
      /\ AddReturned(p) =>
           /\ Len(AddCalls(p)) = CeilDiv(Len(frame[p].args.documents), 100)
           /\ ConcatIds(AddCalls(p)) = InputIds(p)

\* an addDocuments call of more than 200 chunks has returned after three or more adds
C1_Witness ==
  \E p \in Procs :
    AddReturned(p) /\ Len(frame[p].args.documents) > 200 /\ Len(AddCalls(p)) >= 3

\* the add call of batch k of caller p's addDocuments has failed
BatchFailed(p, k) ==
  /\ frame[p].op = "addDocuments"
  /\ k \in 1..Len(AddCalls(p))
  /\ AddCalls(p)[k].status = "failed"

StoredIds(setId) == RecordIds(backend[setId].records)

\* C2: when the add call of batch k fails, it is the last add call the
\* operation issues (no batch k+1..n is attempted), the records of batches
\* 1..k-1 are in the backend (nothing is rolled back), and the operation ends
\* with an error.
C2_FirstFailureStops ==
  \A p \in Procs : \A k \in 1..Len(AddCalls(p)) :
    BatchFailed(p, k) =>
      /\ k = Len(AddCalls(p))
      /\ pc[p] # "wait"
      /\ pc[p] = "idle" => ~ret[p].ok
      /\ \A i \in 1..((k - 1) * 100) :
           frame[p].args.documents[i].id \in StoredIds(frame[p].args.setId)

\* batch k >= 2 has failed, with batches behind it that were never sent
C2_Witness ==
  \E p \in Procs : \E k \in 2..Len(AddCalls(p)) :
    /\ BatchFailed(p, k)
    /\ pc[p] = "idle"
    /\ Len(frame[p].args.documents) > k * 100

\* caller p's addDocuments has thrown because the add call of batch k failed
AddThrewAt(p, k) == BatchFailed(p, k) /\ pc[p] = "idle"

\* the operation before caller p's current one was an addDocuments that
\* threw because its k-th add call failed
EarlierAddThrewAt(p, k) ==
  /\ prev[p] # <<>>
  /\ prev[p][1].op = "addDocuments"
  /\ LET adds == SelectSeq(prev[p][1].calls, LAMBDA c : c.call = "add")
     IN  k = Len(adds) /\ k > 0 /\ adds[k].status = "failed"

\* C3 as claimed: the error of a failed addDocuments carries the index of the
\* first failed batch, so two calls that fail at different batches raise
\* different errors.
C3_ErrorCarriesBatchIndex ==
  \A p \in Procs : \A k \in 1..Len(AddCalls(p)) :
    \A j \in 1..10 :
      AddThrewAt(p, k) /\ EarlierAddThrewAt(p, j) /\ j # k =>
        ret[p].error # prev[p][1].outcome.error

\* C3 as amended: the error of an addDocuments whose add call failed is
\* "Failed to add documents: " followed by the backend's message of that
\* call, and nothing else: it carries no batch index.
C3_ErrorIsBackendMessage ==
  \A p \in Procs : \A k \in 1..Len(AddCalls(p)) :
    AddThrewAt(p, k) =>
      ret[p] = [ok |-> FALSE, error |-> "Failed to add documents: " \o resp[p].message]

\* an addDocuments has thrown at its second or a later batch
C3_Witness ==
  \E p \in Procs : \E k \in 2..Len(AddCalls(p)) :
    AddThrewAt(p, k) /\ ~ret[p].ok /\ ~resp[p].ok

\* the calls of one kind caller p's operation has issued, in issue order
CallsOf(p, call) == SelectSeq(calls[p], LAMBDA c : c.req.call = call)

\* the document id a stored record carries (the empty string if none)
DocumentIdOf(rec) ==
  IF TypeOf(Prop(rec.metadata, "document_id")) = "string"
    THEN Prop(rec.metadata, "document_id").v
    ELSE <<>>

\* the distinct non-empty document ids of the records of a set
StoredDocumentIds(setId) ==
  {DocumentIdOf(backend[setId].records[i]) : i \in 1..Len(backend[setId].records)}
    \ {<<>>}

\* listDocuments has returned normally to caller p
ListReturned(p) == frame[p].op = "listDocuments" /\ pc[p] = "idle" /\ ret[p].ok

\* the list caller p got has one entry per document of the set, and no other
ListsStoredDocuments(p) ==
  /\ Exists(frame[p].args.setId)
  /\ \A i, j \in 1..Len(ret[p].value) : ret[p].value[i].id = ret[p].value[j].id => i = j
  /\ {ret[p].value[i].id : i \in 1..Len(ret[p].value)} = StoredDocumentIds(frame[p].args.setId)

\* C4: with one caller, the list listDocuments returns has exactly one entry
\* per distinct non-empty document_id carried by the records of the set, in
\* whichever order the backend holds and returns them; records without a
\* document_id contribute no entry.
C4_OneEntryPerDocument ==
  \A p \in Sequential.procs : ListReturned(p) => ListsStoredDocuments(p)

\* a list of two documents, of a set of three or more records of which one
\* carries no document_id and two carry the same
C4_Witness ==
  \E p \in Sequential.procs :
    /\ ListReturned(p)
    /\ Len(ret[p].value) = 2
    /\ LET recs == backend[frame[p].args.setId].records
       IN  /\ Len(recs) >= 3
           /\ \E i \in 1..Len(recs) : DocumentIdOf(recs[i]) = <<>>
           /\ \E i, j \in 1..Len(recs) :
                i # j /\ DocumentIdOf(recs[i]) = doc1 /\ DocumentIdOf(recs[j]) = doc1

\* caller p's operation is a getDocumentSet(id) that has returned, and the
\* operation before it was a deleteDocumentSet(id) that returned normally
GetAfterDelete(p) ==
  /\ frame[p].op = "getDocumentSet"
  /\ pc[p] = "idle"
  /\ prev[p] # <<>>
  /\ prev[p][1].op = "deleteDocumentSet"
  /\ prev[p][1].setId = frame[p].args.setId
  /\ prev[p][1].outcome.ok

\* C5: with one caller, a getDocumentSet(id) that follows a deleteDocumentSet(id)
\* that completed successfully returns null, whatever was done to the set
\* before the delete.
C5_GetAfterDeleteIsNull ==
  \A p \in Sequential.procs : GetAfterDelete(p) => ret[p] = Returned(Null)

\* null was returned for a set that the delete before it did remove
C5_Witness ==
  \E p \in Sequential.procs :
    /\ GetAfterDelete(p)
    /\ prev[p][1].calls = <<[call |-> "deleteCollection", status |-> "ok"]>>
    /\ ret[p] = Returned(Null)

\* C6: with one caller, listDocuments reads the count of the set once and
\* then fetches pages of 500 metadata-only records at offsets 0, 500, 1000,
\* ..., each below the count; when it returns it has fetched ceil(count/500)
\* pages, and for a count of 0 it returns the empty list without any fetch.
C6_PageWalk ==
  \A p \in Bulk.procs :
    frame[p].op = "listDocuments" =>
      LET counts == CallsOf(p, "count")
          gets   == CallsOf(p, "get")
          setId  == frame[p].args.setId
      IN  /\ Len(counts) <= 1
          /\ \A k \in 1..Len(gets) :
               /\ Len(counts) = 1 /\ counts[1].status = "ok"
               /\ gets[k].req.offset = (k - 1) * 500
               /\ gets[k].req.offset < Len(backend[setId].records)
               /\ gets[k].req.limit = 500
               /\ gets[k].req.include = <<"metadatas">>
          /\ ListReturned(p) =>
               /\ Len(counts) = 1
               /\ Len(gets) = CeilDiv(Len(backend[setId].records), 500)
               /\ Len(backend[setId].records) = 0 => ret[p].value = <<>>

\* a set of more than 500 records has been listed in two fetches
C6_Witness ==
  \E p \in Bulk.procs :
    /\ ListReturned(p)
    /\ Len(backend[frame[p].args.setId].records) > 500
    /\ Len(CallsOf(p, "get")) = 2
    /\ Len(ret[p].value) > 20

\* the list-valued fields the codec inputs are given
ListFields == {"keywords", "topic_tags"}

\* a list element the stored form can carry: not empty, no comma, no
\* whitespace around it
IsPlainElement(e) ==
  /\ e # <<>>
  /\ \A i \in 1..Len(e) : e[i] # ","
  /\ Trim(e) = e

\* field f of the given record is a list of such elements
IsPlainList(f) ==
  /\ f \in DOMAIN cin
  /\ IsArray(cin[f])
  /\ \A i \in 1..Len(cin[f].v) : IsPlainElement(cin[f].v[i])

\* C7 as claimed, for the list-valued fields: a list without an element
\* that is empty, holds a comma or has whitespace around it, the empty list
\* included, is decoded from its stored form to the list that was given.
C7_RoundTrip ==
  cpc = "decoded" =>
    \A f \in ListFields : IsPlainList(f) => Prop(cdec, f) = cin[f]

\* the hits of the response caller p's searchDocuments was given
Hits(p) == resp[p].value

\* searchDocuments has returned to caller p after its query was answered
SearchAnswered(p) ==
  /\ frame[p].op = "searchDocuments"
  /\ frame[p].at = "query"
  /\ pc[p] = "idle"
  /\ resp[p].ok

\* the predicate a filter entry is translated to
IsTranslationOf(cond, value) ==
  IF IsArray(value)
    THEN cond.op = "$in" /\ cond.value = value.v
    ELSE cond.op = "$eq" /\ cond.value = value

\* C8: the query searchDocuments sends carries no predicate when the filter
\* map is absent or empty, and otherwise a predicate with exactly the map's
\* field names, each list-valued entry as an "is one of" ($in) condition over
\* the list and each scalar entry as an equality ($eq) condition.
C8_FilterTranslation ==
  \A p \in Searching.procs :
    frame[p].op = "searchDocuments" /\ req[p].call = "query" =>
      LET filters == frame[p].args.filters
          where   == req[p].where
      IN  IF filters = Undefined \/ DOMAIN filters.v = {}
            THEN where = Undefined
            ELSE /\ where # Undefined
                 /\ DOMAIN where.v = DOMAIN filters.v
                 /\ \A f \in DOMAIN filters.v : IsTranslationOf(where.v[f], filters.v[f])

\* a query is on its way whose filter has a list-valued and a scalar entry
C8_Witness ==
  \E p \in Searching.procs :
    /\ Waiting(p, "query")
    /\ frame[p].args.filters # Undefined
    /\ \E f, g \in DOMAIN frame[p].args.filters.v :
         /\ IsArray(frame[p].args.filters.v[f])
         /\ ~IsArray(frame[p].args.filters.v[g])
         /\ req[p].where.v[f].op = "$in"
         /\ req[p].where.v[g].op = "$eq"

\* C9: searchDocuments returns one result per hit of the backend's response,
\* in the response's order, each with the hit's id, with similarity 1 minus
\* the hit's distance (in tenths: 10 minus it), unclamped, and with the
\* hit's content, or the empty string if the hit has none; a response without
\* hits gives the empty list, not an error.
C9_Results ==
  \A p \in Searching.procs :
    SearchAnswered(p) =>
      /\ ret[p].ok
      /\ Len(ret[p].value) = Len(Hits(p).ids)
      /\ \A i \in 1..Len(Hits(p).ids) :
           /\ ret[p].value[i].id = Hits(p).ids[i]
           /\ TypeOf(Hits(p).distances[i]) = "number" /\ Hits(p).distances[i] # NaN =>
                ret[p].value[i].similarity = Num(10 - Hits(p).distances[i].v)
           /\ ret[p].value[i].content =
                IF Hits(p).documents[i] = Null THEN <<>> ELSE Hits(p).documents[i].v

\* two hits without content, at distances 0.2 and 1.5, came back with
\* similarities 0.8 and -0.5
C9_Witness ==
  \E p \in Searching.procs :
    /\ SearchAnswered(p)
    /\ Len(ret[p].value) = 2
    /\ Hits(p).distances = <<Num(2), Num(15)>>
    /\ Hits(p).documents = <<Null, Null>>
    /\ ret[p].value[1].similarity = Num(8)
    /\ ret[p].value[2].similarity = Num(-5)

\* the backend serves the delete call of caller p's deleteDocument
DeleteServed(p) ==
  /\ frame[p].op = "deleteDocument"
  /\ Waiting(p, "delete")
  /\ pc'[p] = "ready"
  /\ resp'[p].ok

\* the records of a sequence whose record id is not id
Without(recs, id) == SelectSeq(recs, LAMBDA rec : rec.id # id)

\* C10: when the backend serves the delete call of deleteDocument(setId, id),
\* the set loses exactly the record whose record id is id: every other
\* record, other chunks of the same document included, stays as it was and
\* where it was; and a listDocuments that follows a deleteDocument lists
\* every document that still has a chunk.
C10_DeletesOneRecord ==
  /\ [][\A p \in Sequential.procs :
          DeleteServed(p) =>
            backend' = [backend EXCEPT ![frame[p].args.setId].records =
                          Without(@, frame[p].args.documentId)]]_vars
  /\ [](\A p \in Sequential.procs :
          /\ ListReturned(p)
          /\ prev[p] # <<>>
          /\ prev[p][1].op = "deleteDocument"
          => ListsStoredDocuments(p))

\* deleteDocument, the caller's first operation, has returned after deleting
\* the first of the three chunks of doc1 of the scenario: that record is gone
\* and the five others, two chunks of doc1 among them, are still there
C10_Witness ==
  \E p \in Sequential.procs :
    /\ frame[p].op = "deleteDocument" /\ pc[p] = "idle" /\ ret[p].ok
    /\ prev[p] = <<>>
    /\ Scenario[frame[p].args.documentId] = Str(doc1)
    /\ LET recs == backend[frame[p].args.setId].records
       IN  /\ Len(recs) = Len(Scenario) - 1
           /\ \A i \in 1..Len(recs) : recs[i].id # frame[p].args.documentId
           /\ \E i, j \in 1..Len(recs) :
                i # j /\ DocumentIdOf(recs[i]) = doc1 /\ DocumentIdOf(recs[j]) = doc1

\* caller p's operation op has ended (returned or thrown)
Ended(p, op) == frame[p].op = op /\ pc[p] = "idle"

\* the backend serves caller p's request of kind call in this step
Served(p, call) == Waiting(p, call) /\ pc'[p] = "ready"

\* the operation before caller p's current one was op on setId and returned
EarlierReturned(p, op, setId) ==
  /\ prev[p] # <<>>
  /\ prev[p][1].op = op
  /\ prev[p][1].setId = setId
  /\ prev[p][1].outcome.ok

\* what createDocumentSet(name) returns
NewDocumentSet(name) == [id |-> name, name |-> name, document_count |-> 0]

\* C11: with one caller, the backend refuses to create a set whose name is
\* taken, and a refused or failed createCollection leaves the backend as it
\* was; createDocumentSet(name) then throws "Failed to create document set: "
\* with the backend's message; when the call succeeds the set exists in the
\* backend without records, its handle is in the cache, and the DocumentSet
\* returned has id = name and document_count = 0.
C11_Create ==
  /\ [][\A p \in Sequential.procs :
          Served(p, "createCollection") =>
            /\ Exists(req[p].name) => ~resp'[p].ok
            /\ ~resp'[p].ok => backend' = backend]_vars
  /\ [](\A p \in Sequential.procs :
          Ended(p, "createDocumentSet") =>
            LET name == frame[p].args.name
            IN  /\ ret[p].ok = resp[p].ok
                /\ ret[p].ok =>
                     /\ Exists(name)
                     /\ backend[name].records = <<>>
                     /\ name \in DOMAIN collections
                     /\ collections[name] = Handle(name)
                     /\ ret[p].value = NewDocumentSet(name)
                /\ ~ret[p].ok =>
                     ret[p].error = "Failed to create document set: " \o resp[p].message)

\* a set was created, and creating it again has failed: the set is still
\* there, empty as it was, with its handle in the cache
C11_Witness ==
  \E p \in Sequential.procs :
    /\ Ended(p, "createDocumentSet")
    /\ ret[p] = [ok |-> FALSE, error |-> "Failed to create document set: already exists"]
    /\ EarlierReturned(p, "createDocumentSet", frame[p].args.name)
    /\ Exists(frame[p].args.name)
    /\ backend[frame[p].args.name].records = <<>>
    /\ frame[p].args.name \in DOMAIN collections

\* C12: with one caller, the backend refuses to delete a set that does not
\* exist, and deleteDocumentSet(id) then throws "Failed to delete document
\* set: " with the backend's message, as it does on any failure of the call
\* (a second delete after a successful one always throws); when it returns
\* normally the collection with all its records is gone from the backend and
\* the cache holds no handle for id.
C12_DeleteSet ==
  /\ [][\A p \in Sequential.procs :
          Served(p, "deleteCollection") =>
            /\ ~Exists(req[p].name) => ~resp'[p].ok /\ backend' = backend
            /\ resp'[p].ok => backend' = [backend EXCEPT ![req[p].name] = NoCollection]]_vars
  /\ [](\A p \in Sequential.procs :
          Ended(p, "deleteDocumentSet") =>
            LET setId == frame[p].args.setId
            IN  /\ ret[p].ok = resp[p].ok
                /\ ret[p].ok => ~Exists(setId) /\ setId \notin DOMAIN collections
                /\ ~ret[p].ok =>
                     ret[p].error = "Failed to delete document set: " \o resp[p].message
                /\ EarlierReturned(p, "deleteDocumentSet", setId) => ~ret[p].ok)

\* a set was deleted, and deleting it again has failed with "not found"
C12_Witness ==
  \E p \in Sequential.procs :
    /\ Ended(p, "deleteDocumentSet")
    /\ EarlierReturned(p, "deleteDocumentSet", frame[p].args.setId)
    /\ prev[p][1].calls = <<[call |-> "deleteCollection", status |-> "ok"]>>
    /\ ret[p] = [ok |-> FALSE, error |-> "Failed to delete document set: not found"]
    /\ ~Exists(frame[p].args.setId)
    /\ frame[p].args.setId \notin DOMAIN collections

\* both backend calls of caller p's getDocumentSet were answered
GetAnswered(p) ==
  /\ Len(calls[p]) = 2
  /\ calls[p][1].status = "ok"
  /\ calls[p][2].status = "ok"

\* C13: with one caller, getDocumentSet never throws: it returns null when
\* the set does not exist or when fetching the collection or reading its
\* count fails, and otherwise a DocumentSet with id = name = setId whose
\* document_count is the number of records the backend holds of the set.
C13_GetNeverThrows ==
  \A p \in Sequential.procs :
    Ended(p, "getDocumentSet") =>
      LET setId == frame[p].args.setId
      IN  /\ ret[p].ok
          /\ ~Exists(setId) => ret[p].value = Null
          /\ IF GetAnswered(p)
               THEN /\ Exists(setId)
                    /\ ret[p].value = [id |-> setId, name |-> setId,
                                       document_count |-> Len(backend[setId].records)]
               ELSE ret[p].value = Null

\* null was returned for a set that exists, because its count could not be read
C13_Witness ==
  \E p \in Sequential.procs :
    /\ Ended(p, "getDocumentSet")
    /\ Exists(frame[p].args.setId)
    /\ Len(calls[p]) = 2
    /\ calls[p][1].status = "ok"
    /\ calls[p][2].status = "failed"
    /\ ret[p] = Returned(Null)

\* the message the error of each throwing operation starts with
ErrorPrefix ==
  [createDocumentSet |-> "Failed to create document set: ",
   listDocumentSets  |-> "Failed to list document sets: ",
   listDocuments     |-> "Failed to list documents: ",
   addDocuments      |-> "Failed to add documents: ",
   searchDocuments   |-> "Failed to search documents: ",
   deleteDocument    |-> "Failed to delete document: ",
   deleteDocumentSet |-> "Failed to delete document set: "]

\* the last backend call of caller p's operation has failed
LastCallFailed(p) == calls[p] # <<>> /\ calls[p][Len(calls[p])].status = "failed"

\* no backend call follows a failed one: nothing is retried
NothingAfterFailure(p) ==
  \A k \in 1..Len(calls[p]) : calls[p][k].status = "failed" => k = Len(calls[p])

\* caller p's operation has ended with its own error around the backend's message
ThrewTyped(p) ==
  ret[p] = [ok |-> FALSE, error |-> ErrorPrefix[frame[p].op] \o resp[p].message]

\* C14 as claimed: when a backend call of an operation fails, no further
\* backend call is made by it, healthCheck returns false, and every operation
\* other than healthCheck and getDocumentSet ends with its own error made of
\* its prefix and the backend's message.
C14_FailuresAreTyped ==
  \A p \in Sequential.procs :
    /\ NothingAfterFailure(p)
    /\ pc[p] = "idle" /\ LastCallFailed(p) =>
         /\ frame[p].op = "healthCheck" => ret[p] = Returned(FALSE)
         /\ frame[p].op \in DOMAIN ErrorPrefix => ThrewTyped(p)

\* a deleteDocumentSet(name) is under way
Deleting(name) ==
  \E p \in Procs :
    frame[p].op = "deleteDocumentSet" /\ pc[p] # "idle" /\ frame[p].args.setId = name

\* C15 as claimed: under any interleaving of the callers' operations, every
\* name in the handle cache names a set that exists in the backend, and the
\* handle kept is a handle of that set, except while a deleteDocumentSet of
\* that name is under way: once the delete has returned, the cache holds no
\* handle of the deleted set.
C15_CacheNamesLiveSets ==
  \A name \in DOMAIN collections :
    (Exists(name) /\ Live(collections[name])) \/ Deleting(name)

\* some page fetch of caller p's operation failed
PageFetchFailed(p) ==
  \E k \in 1..Len(calls[p]) : calls[p][k].req.call = "get" /\ calls[p][k].status = "failed"

\* C16: with one caller, a listDocuments call of which a page fetch failed
\* ends with the error "Failed to list documents: " followed by the
\* backend's message, and returns no list; a listDocuments call that returns
\* a list has had every one of its calls answered, has fetched all
\* ceil(count/500) pages, and returns one entry per document of the set.
C16_FullListOrError ==
  \A p \in Bulk.procs :
    Ended(p, "listDocuments") =>
      /\ PageFetchFailed(p) =>
           /\ ret[p] = Thrown("Failed to list documents: ", resp[p])
           /\ DOMAIN ret[p] = {"ok", "error"}
      /\ ret[p].ok =>
           /\ \A k \in 1..Len(calls[p]) : calls[p][k].status = "ok"
           /\ Len(CallsOf(p, "get")) =
                CeilDiv(Len(backend[frame[p].args.setId].records), pageSize)
           /\ ListsStoredDocuments(p)

\* the second page fetch failed after the first had collected documents, and
\* the call ended with the error
C16_Witness ==
  \E p \in Bulk.procs :
    /\ Ended(p, "listDocuments")
    /\ Len(CallsOf(p, "get")) = 2
    /\ CallsOf(p, "get")[1].status = "ok"
    /\ CallsOf(p, "get")[2].status = "failed"
    /\ Len(frame[p].docsById) > 0
    /\ ~ret[p].ok

\* the positions of the records that are the first of their document, in
\* the backend's order
FirstChunks(recs) ==
  SelectSeq([i \in 1..Len(recs) |-> i],
            LAMBDA i : /\ DocumentIdOf(recs[i]) # <<>>
                       /\ \A j \in 1..(i - 1) : DocumentIdOf(recs[j]) # DocumentIdOf(recs[i]))

\* the fields of a listed entry that a record carries are the record's
TakenFrom(entry, rec) ==
  /\ entry.id = DocumentIdOf(rec)
  /\ \A key \in {"source_file", "mime_type", "created_at"} :
       Prop(rec.metadata, key) # Undefined => entry[key] = Prop(rec.metadata, key).v
  /\ Prop(rec.metadata, "size_bytes") # Undefined =>
       entry.size_bytes = Prop(rec.metadata, "size_bytes")

\* C17: with one caller, the entries listDocuments returns are in the order
\* in which their document_ids first appear among the records as the backend
\* returns them, and the source_file, mime_type, size_bytes and created_at
\* of each entry are those of the first record with that document_id;
\* later records of the same document change nothing.
C17_FirstSeenWins ==
  \A p \in Bulk.procs :
    ListReturned(p) =>
      LET recs  == backend[frame[p].args.setId].records
          first == FirstChunks(recs)
      IN  /\ Len(ret[p].value) = Len(first)
          /\ \A k \in 1..Len(first) : TakenFrom(ret[p].value[k], recs[first[k]])

\* a list made from two pages, in which chunks of one document lie on both
\* pages and the entry has the source_file of the first of them, not that
\* of the chunk on the second page
C17_Witness ==
  \E p \in Bulk.procs :
    /\ ListReturned(p)
    /\ Len(CallsOf(p, "get")) = 2
    /\ LET recs  == backend[frame[p].args.setId].records
           first == FirstChunks(recs)
       IN  \E k \in 1..Len(first), j \in (pageSize + 1)..Len(recs) :
             /\ first[k] <= pageSize
             /\ DocumentIdOf(recs[j]) = ret[p].value[k].id
             /\ ret[p].value[k].source_file = Prop(recs[first[k]].metadata, "source_file").v
             /\ ret[p].value[k].source_file # Prop(recs[j].metadata, "source_file").v

\* the operations that use a set's chunks through its handle
ChunkOps == {"listDocuments", "addDocuments", "searchDocuments", "deleteDocument"}

\* callers p and q each run a first operation on the chunks of one set, and
\* each had to ask the backend for the handle: neither found it cached
RacedFirstUse(p, q) ==
  /\ p # q
  /\ \A r \in {p, q} :
       /\ frame[r].op \in ChunkOps
       /\ prev[r] = <<>>
       /\ calls[r] # <<>>
       /\ calls[r][1].req.call = "getCollection"
  /\ frame[p].args.setId = frame[q].args.setId

\* both operations have returned normally
BothReturned(p, q) == \A r \in {p, q} : pc[r] = "idle" /\ ret[r].ok

RECURSIVE AddedInBatches(_, _, _)
\* the collection after the batches of documents from position i on were added
AddedInBatches(coll, documents, i) ==
  IF i >= Len(documents) THEN coll
  ELSE AddedInBatches(
         [coll EXCEPT !.records = StoredAfterAdd(coll, StoredRecords(batchAt(documents, i)))],
         documents, i + batchSize)

\* the collection that caller p's operation, run alone, makes of coll
EffectOf(p, coll) ==
  CASE frame[p].op = "addDocuments" -> AddedInBatches(coll, frame[p].args.documents, 0)
    [] frame[p].op = "deleteDocument" ->
         [coll EXCEPT !.records = SelectSeq(@, LAMBDA rec : rec.id # frame[p].args.documentId)]
    [] OTHER -> coll

\* what caller p's operation returned is what it returns when run alone on coll
OutcomeOn(p, coll) ==
  CASE frame[p].op = "listDocuments" ->
         LET first == FirstChunks(coll.records)
         IN  [k \in 1..Len(ret[p].value) |-> ret[p].value[k].id] =
               [k \in 1..Len(first) |-> DocumentIdOf(coll.records[first[k]])]
    [] frame[p].op = "searchDocuments" ->
         LET query == calls[p][Len(calls[p])].req
             found == SelectSeq(coll.records, LAMBDA rec : Matches(rec, query.where))
         IN  resp[p].value.ids =
               [k \in 1..Min(Len(found), query.nResults) |-> found[k].id]
    [] OTHER -> TRUE

\* the outcomes of p and q and the set they leave are those of p's operation
\* run to its end on a set the adapter found at its construction, and q's
\* after it
AsIfInOrder(p, q) ==
  \E seed \in Racing.seeds :
    /\ OutcomeOn(p, seed)
    /\ OutcomeOn(q, EffectOf(p, seed))
    /\ backend[frame[p].args.setId] = EffectOf(q, EffectOf(p, seed))

\* the cache holds one live handle of the set
HoldsLiveHandle(setId) ==
  /\ setId \in DOMAIN collections
  /\ collections[setId] = Handle(setId)
  /\ Exists(setId)

\* C18 as claimed: when two operations make first use of one existing,
\* uncached set at once and both return, their outcomes are those of running
\* one after the other in one of the two orders, and the cache holds one live
\* handle of the set.
C18_AsIfOneAfterTheOther ==
  \A p, q \in Racing.procs :
    RacedFirstUse(p, q) /\ BothReturned(p, q) =>
      /\ HoldsLiveHandle(frame[p].args.setId)
      /\ AsIfInOrder(p, q) \/ AsIfInOrder(q, p)

\* caller p's operation makes one call for the chunks of the set: a query, a
\* delete, or the add of one batch
OneDataCall(p) ==
  \/ frame[p].op \in {"searchDocuments", "deleteDocument"}
  \/ frame[p].op = "addDocuments" /\ Len(frame[p].args.documents) <= batchSize

\* every call caller p's operation has made for the chunks of the set was
\* made with the handle of the set
UsedLiveHandle(p) ==
  \A k \in 1..Len(calls[p]) :
    calls[p][k].req.call # "getCollection" =>
      calls[p][k].req.handle = Handle(frame[p].args.setId)

\* C18: when two operations (any of listDocuments, addDocuments,
\* searchDocuments, deleteDocument) make first use of one existing, uncached
\* set at once, each asks the backend for the handle once and makes all its
\* other calls with the handle of the set; as soon as one of them has
\* resolved it the cache holds that one live handle; an operation that fails
\* fails with the message of a failed call of its own; and when both return
\* and each makes one call for the chunks (a search, a deleteDocument, an
\* addDocuments of at most 100 chunks), their outcomes and the set they
\* leave are those of running one after the other in one of the two orders.
C18_RaceIsBenign ==
  \A p, q \in Racing.procs :
    RacedFirstUse(p, q) =>
      /\ Len(CallsOf(p, "getCollection")) = 1
      /\ UsedLiveHandle(p)
      /\ Len(calls[p]) > 1 => HoldsLiveHandle(frame[p].args.setId)
      /\ pc[p] = "idle" /\ ~ret[p].ok =>
           /\ LastCallFailed(p)
           /\ ret[p] = Thrown(ErrorPrefix[frame[p].op], resp[p])
      /\ BothReturned(p, q) /\ OneDataCall(p) /\ OneDataCall(q) =>
           AsIfInOrder(p, q) \/ AsIfInOrder(q, p)

\* a search and an addDocuments of one chunk raced for the handle, both
\* returned, and the search found the added chunk
C18_Witness ==
  \E p, q \in Racing.procs :
    /\ RacedFirstUse(p, q)
    /\ BothReturned(p, q)
    /\ frame[p].op = "searchDocuments"
    /\ frame[q].op = "addDocuments"
    /\ Len(frame[q].args.documents) = 1
    /\ \E k \in 1..Len(resp[p].value.ids) :
         resp[p].value.ids[k] = frame[q].args.documents[1].id
    /\ HoldsLiveHandle(frame[p].args.setId)

\* the fields every stored record has, with the defaults of those left out
RequiredDefaults ==
  [source_file   |-> Str(<<>>),
   document_type |-> Str(<<"u", "n", "k", "n", "o", "w", "n">>),
   category      |-> Str(<<>>),
   keywords      |-> Str(<<>>),
   chunk_index   |-> Num(0)]

\* the declared types of the optional fields the codec inputs are given
ExpectedType == [topic_tags |-> "array", size_bytes |-> "number", summary |-> "string"]

\* C19 as claimed: the record addDocuments builds for the backend has the
\* five required fields, with their defaults where the input leaves them
\* out; it has an optional field only if the input has it, with a value of
\* the field's type; and all its values are strings or numbers.
C19_EncodedIsScalar ==
  cpc \in {"encoded", "decoded"} =>
    /\ \A f \in DOMAIN RequiredDefaults :
         /\ f \in DOMAIN cenc
         /\ f \notin DOMAIN cin => cenc[f] = RequiredDefaults[f]
    /\ \A f \in DOMAIN cenc \ DOMAIN RequiredDefaults :
         f \in DOMAIN cin /\ cin[f].t = ExpectedType[f]
    /\ \A f \in DOMAIN cenc : cenc[f].t \in {"string", "number"}

\* the operations that read
ReadOps == {"healthCheck", "getDocumentSet", "listDocumentSets", "listDocuments",
            "searchDocuments"}

\* C20: no step of a healthCheck, getDocumentSet, listDocumentSets,
\* listDocuments or searchDocuments, from its call to its return or error,
\* the backend's serving of its requests included, changes the document sets
\* of the backend or the records of any of them; the handle cache changes only
\* by taking the live handle of the set the operation names.
C20_ReadsLeaveBackendAlone ==
  [][\A p \in Sequential.procs :
       frame'[p].op \in ReadOps =>
         /\ backend' = backend
         /\ nextId' = nextId
         /\ \/ collections' = collections
            \/ /\ frame[p].op \in {"listDocuments", "searchDocuments"}
               /\ collections' = Cached(frame[p].args.setId, Handle(frame[p].args.setId))]_vars

\* a first listDocuments on a set that holds chunks has returned its list,
\* the handle of the set is in the cache, and the set holds the chunks it
\* held when the adapter was constructed
C20_Witness ==
  \E p \in Sequential.procs :
    /\ ListReturned(p)
    /\ prev[p] = <<>>
    /\ Len(ret[p].value) > 0
    /\ frame[p].args.setId \in DOMAIN collections
    /\ backend[frame[p].args.setId] \in Sequential.seeds

====
